---- MODULE Spec2Model ----
(***************************************************************************)
(* Model of the OpenDP placement pipeline of src/opendp/src/place.cpp:     *)
(* Opendp::simplePlacement and the passes it sequences, over a small site  *)
(* grid.  The grid primitives (map_move, shift_move, erase_pixel,          *)
(* swap_cell, refine_move) and the geometric predicates are not part of    *)
(* place.cpp; they are modelled from the contracts of section 6 of the     *)
(* specification.                                                          *)
(***************************************************************************)
EXTENDS Integers, Sequences, FiniteSets, TLC

VARIABLES design,   \* the loaded data model: cells' attributes, groups_, parameters
          cells,    \* per cell: is_placed, hold, x, y, region
          grid,     \* site -> occupying cell (0: free)
          pc,       \* position of the flow of control inside simplePlacement
          loc,      \* the locals of the function that is running
          ops,      \* grid operations issued by the function that is running
          calls,    \* top-level calls made by simplePlacement so far
          twin      \* the state of a second run on the same design

vars == <<design, cells, grid, pc, loc, ops, calls, twin>>

-----------------------------------------------------------------------------
(* Bounds of the model *)

GridW == 4            \* sites per row

-----------------------------------------------------------------------------
(* Program constants *)

SEED == 777                 \* srand(777)
MAX_ROUNDS == 3             \* for(int j = 0; j < 3; j++)
MIN_REFINE == 10            \* count_a < 10
MIN_SWAP == 100             \* count_b < 100
GROUP_TRIALS == 1000        \* 1000 * group->siblings.size()
NON_GROUP_TRIALS == 100     \* 100 * cells_.size()
UTIL_LIMIT == 95            \* group.util > 0.95, in hundredths

-----------------------------------------------------------------------------
(* Arithmetic and sequence helpers *)

Abs(n) == IF n < 0 THEN -n ELSE n

Max2(a, b) == IF a > b THEN a ELSE b

Range(q) == {q[i] : i \in 1..Len(q)}

SetMin(S) == CHOOSE m \in S : \A n \in S : m <= n

\* All orderings of the elements of a sequence
Perms(q) ==
  {p \in [1..Len(q) -> Range(q)] :
     \A i \in 1..Len(q) : \E k \in 1..Len(q) :
        /\ p[k] = q[i]
        /\ Cardinality({m \in 1..Len(q) : p[m] = q[i]})
             = Cardinality({m \in 1..Len(q) : q[m] = q[i]})}

-----------------------------------------------------------------------------
(* Data model: Cell, Macro, Group, adsRect *)

NoRect == [xMin |-> 0, xMax |-> 0, yMin |-> 0, yMax |-> 0]

Rect(x1, x2, y1, y2) == [xMin |-> x1, xMax |-> x2, yMin |-> y1, yMax |-> y2]

\* The two fence regions of the designs: the left two columns, and the rest
RegionA == Rect(0, 2, 0, 2)

RegionB == Rect(2, GridW, 0, 2)

\* One cell as loaded: isFixed, its group (0: none), its macro (isMulti and
\* width in sites), dense_factor, db_inst id, its initial location, the region
\* that region assignment gives it, and whether it is loaded already placed
CellAttr(fx, g, m, w, d, i, x, y, r, p) ==
  [fixed |-> fx, grp |-> g, multi |-> m, w |-> w, dense_factor |-> d, id |-> i,
   ix |-> x, iy |-> y, reg |-> r, placed0 |-> p]

Group(sib, regs, b, u) ==
  [siblings |-> sib, regions |-> regs, boundary |-> b, util |-> u]

\* Variants of the four cells of a design; ng is the number of groups
Cell1(ng) ==
  CellAttr(FALSE, IF ng >= 1 THEN 1 ELSE 0, TRUE, 1, 1, 9, 0, 0,
           IF ng >= 1 THEN RegionA ELSE NoRect, FALSE)

Cell2(ng, v) ==
  LET g == IF ng >= 1 THEN 1 ELSE 0
      r == IF ng >= 1 THEN RegionA ELSE NoRect
  IN CASE v = 1 -> CellAttr(FALSE, g, FALSE, 1, 1, 5, 1, 0, r, FALSE)
       [] v = 2 -> CellAttr(FALSE, g, FALSE, 2, 2, 5, 0, 1, r, FALSE)
       [] OTHER -> CellAttr(FALSE, g, FALSE, 1, 1, 5, 3, 0, r, FALSE)

Cell3(ng, v) ==
  IF ng = 2 THEN CellAttr(FALSE, 2, FALSE, 1, 1, 3, 2, 1, RegionB, FALSE)
  ELSE LET g == IF ng >= 1 THEN 1 ELSE 0
           r == IF ng >= 1 THEN RegionA ELSE NoRect
       IN CASE v = 1 -> CellAttr(TRUE, g, FALSE, 1, 1, 3, 1, 1, r, TRUE)
            [] v = 2 -> CellAttr(FALSE, g, FALSE, 1, 1, 3, 1, 1, r, TRUE)
            [] OTHER -> CellAttr(FALSE, g, FALSE, 1, 1, 3, 1, 1, r, FALSE)

Cell4(v) ==
  CASE v = 1 -> CellAttr(FALSE, 0, TRUE, 1, 1, 1, 2, 0, NoRect, FALSE)
    [] v = 2 -> CellAttr(FALSE, 0, FALSE, 1, 1, 1, 1, 0, NoRect, FALSE)
    [] v = 4 -> CellAttr(FALSE, 0, TRUE, 2, 1, 1, 1, 0, NoRect, FALSE)
    [] OTHER -> CellAttr(FALSE, 0, FALSE, 1, 1, 1, 3, 1, NoRect, FALSE)

Groups(ng, u) ==
  CASE ng = 0 -> <<>>
    [] ng = 1 -> <<Group(<<1, 2, 3>>, <<RegionA>>, RegionA, u)>>
    [] OTHER -> <<Group(<<1, 2>>, <<RegionA>>, RegionA, u),
                  Group(<<3>>, <<RegionB>>, RegionB, u)>>

\* group_refine_percent_ / non_group_refine_percent_ are given in hundredths.
\* The designs that are loaded: <<number of groups, util of the groups in
\* hundredths, refine percent, variant of cell 2, of cell 3, of cell 4>>
Params ==
  {<<0, 95, 100, 2, 1, 1>>, <<0, 95, 100, 1, 3, 2>>,
   <<1, 95, 100, 1, 2, 2>>, <<1, 96, 100, 3, 1, 1>>, <<1, 95, 50, 3, 3, 3>>,
   <<2, 95, 100, 2, 1, 1>>, <<2, 96, 50, 3, 1, 2>>}

Design(t) ==
  [cell |-> <<Cell1(t[1]), Cell2(t[1], t[4]), Cell3(t[1], t[5]), Cell4(t[6])>>,
   groups |-> Groups(t[1], t[2]), percent |-> t[3]]

Designs == {Design(t) : t \in Params}

\* A design whose group lists cell 2 among its siblings although the cell
\* belongs to no group
StrayDesign == [Design(<<1, 95, 100, 3, 3, 3>>) EXCEPT !.cell[2] = Cell2(0, 3)]

\* A design of two groups whose third cell is ungrouped, two rows high, and
\* lies across the regions of both groups; its fourth cell is the sibling of
\* the second group
OverlapDesign ==
  [Design(<<2, 95, 100, 1, 1, 4>>) EXCEPT
     !.cell[3] = Cell4(4), !.cell[4] = Cell3(2, 1),
     !.groups[2].siblings = <<4>>]

\* Designs without groups whose three cells differ in footprint, dense_factor
\* and id: a cell is a row of 5 or 10 sites or two rows of 5 sites, and the ids
\* 3, 5, 9 are given to the cells in any order
SortCell(sh, d, i) == CellAttr(FALSE, 0, sh[1], sh[2], d, i, 0, 0, NoRect, FALSE)

SortShapes == {<<FALSE, 5>>, <<FALSE, 10>>, <<TRUE, 5>>}

SortDesigns ==
  {[cell |-> <<SortCell(sh[1], d[1], i[1]), SortCell(sh[2], d[2], i[2]),
               SortCell(sh[3], d[3], i[3])>>,
    groups |-> <<>>, percent |-> 100] :
     sh \in SortShapes \X SortShapes \X SortShapes,
     d \in {1, 2} \X {1, 2} \X {1, 2},
     i \in Perms(<<3, 5, 9>>)}

\* A design of two groups of ten single-site siblings each
RoundsCell(c) ==
  IF c <= 10 THEN CellAttr(FALSE, 1, FALSE, 1, 1, c, 0, 0, RegionA, FALSE)
  ELSE CellAttr(FALSE, 2, FALSE, 1, 1, c, 2, 0, RegionB, FALSE)

RoundsDesign ==
  [cell |-> [c \in 1..20 |-> RoundsCell(c)],
   groups |-> <<Group([c \in 1..10 |-> c], <<RegionA>>, RegionA, 95),
                Group([c \in 1..10 |-> c + 10], <<RegionB>>, RegionB, 95)>>,
   percent |-> 100]

Cells == 1..Len(design.cell)

\* cells_, in order
cells_ == [c \in Cells |-> c]

Sites == (0..(GridW - 1)) \X {0, 1}

NoPos == <<-1, -1>>

Attr(c) == design.cell[c]

isFixed(c) == Attr(c).fixed

inGroup(c) == Attr(c).grp # 0

isMulti(c) == Attr(c).multi

Height(c) == IF isMulti(c) THEN 2 ELSE 1

area(c) == Attr(c).w * Height(c)

Footprint(c, p) ==
  {<<p[1] + i, p[2] + k>> : i \in 0..(Attr(c).w - 1), k \in 0..(Height(c) - 1)}

-----------------------------------------------------------------------------
(* Geometry (Opendp.h / utility code, from the contracts of the spec) *)

\* initLocation: the cell's original target coordinates
initLocation(c) == <<Attr(c).ix, Attr(c).iy>>

Manhattan(p, q) == Abs(p[1] - q[1]) + Abs(p[2] - q[2])

\* disp: distance between the current position and the original target
disp(s, c) == Manhattan(<<s.cells[c].x, s.cells[c].y>>, initLocation(c))

\* check_inside: the cell's box at its current location lies inside the rect
check_inside(s, c, r) ==
  /\ s.cells[c].x >= r.xMin
  /\ s.cells[c].x + Attr(c).w <= r.xMax
  /\ s.cells[c].y >= r.yMin
  /\ s.cells[c].y + Height(c) <= r.yMax

\* check_overlap: the cell's box at its current location intersects the rect
check_overlap(s, c, r) ==
  /\ s.cells[c].x < r.xMax
  /\ s.cells[c].x + Attr(c).w > r.xMin
  /\ s.cells[c].y < r.yMax
  /\ s.cells[c].y + Height(c) > r.yMin

\* dist_for_rect: how far the cell's box sticks out of the rect
dist_for_rect(s, c, r) ==
  Max2(0, Max2(r.xMin - s.cells[c].x, s.cells[c].x + Attr(c).w - r.xMax))
  + Max2(0, Max2(r.yMin - s.cells[c].y, s.cells[c].y + Height(c) - r.yMax))

\* nearest_coord_to_rect_boundary: a cell that overlaps the rect is pushed out
\* over the nearer edge of one axis; a cell outside is clamped into the rect
nearest_coord_to_rect_boundary(s, c, r) ==
  LET x == s.cells[c].x
      y == s.cells[c].y
      w == Attr(c).w
      h == Height(c)
      right == Abs(x + w - r.xMin) > Abs(r.xMax - x)
      up == Abs(y + h - r.yMin) > Abs(r.yMax - y)
      dx == IF right THEN Abs(r.xMax - x) ELSE Abs(x + w - r.xMin)
      dy == IF up THEN Abs(r.yMax - y) ELSE Abs(y + h - r.yMin)
      ox == IF right THEN r.xMax ELSE r.xMin - w
      oy == IF up THEN r.yMax ELSE r.yMin - h
      cx == IF x < r.xMin THEN r.xMin
            ELSE IF x + w > r.xMax THEN r.xMax - w ELSE x
      cy == IF y < r.yMin THEN r.yMin
            ELSE IF y + h > r.yMax THEN r.yMax - h ELSE y
  IN IF check_overlap(s, c, r)
     THEN IF dx < dy THEN <<ox, y>> ELSE <<x, oy>>
     ELSE <<cx, cy>>

-----------------------------------------------------------------------------
(* Grid primitives (the Geometry/Grid Service of the spec, section 6) *)

\* One entry of the operation log: the operation, its cell (and the second
\* cell of a swap), the coordinates handed over, the cell's is_placed and hold
\* when the call was made, the loop that made the call, and the outcome
Op(s, name, c, d, x, y, ph, ok) ==
  [op |-> name, cell |-> c, other |-> d, x |-> x, y |-> y,
   placed |-> s.cells[c].is_placed, hold |-> s.cells[c].hold,
   ph |-> ph, ok |-> ok]

Log(s, e) == [s EXCEPT !.ops = Append(@, e)]

\* Positions at which the cell's footprint is on the grid and free (sites the
\* cell itself holds count as free)
LegalPos(s, c) ==
  {p \in Sites : \A t \in Footprint(c, p) : t \in Sites /\ s.grid[t] \in {0, c}}

\* The legal position nearest to a target; among equally near ones the search
\* finds the lowest row first, then the lowest column
Before(p, q) == p[2] < q[2] \/ (p[2] = q[2] /\ p[1] <= q[1])

Nearest(S, x, y) ==
  {p \in S : \A q \in S :
     \/ Manhattan(p, <<x, y>>) < Manhattan(q, <<x, y>>)
     \/ (Manhattan(p, <<x, y>>) = Manhattan(q, <<x, y>>) /\ Before(p, q))}

\* The grid with the sites of S given to cell c (0: freed)
Mark(g, S, c) == [t \in DOMAIN g |-> IF t \in S THEN c ELSE g[t]]

\* paint_pixel: reserve the footprint and mark the cell placed
Paint(s, c, p) ==
  [s EXCEPT !.grid = Mark(@, Footprint(c, p), c),
            !.cells[c].x = p[1], !.cells[c].y = p[2],
            !.cells[c].is_placed = TRUE]

\* release: free the footprint of a committed cell and reset its placed state
Release(s, c) ==
  [s EXCEPT !.grid = [t \in DOMAIN @ |-> IF @[t] = c THEN 0 ELSE @[t]],
            !.cells[c].is_placed = FALSE]

\* The outcomes a direct placement at/near (x, y) can have: a nearest legal
\* position, or failure (the search is bounded, so it may always fail)
MapMoveOutcomes(s, c, x, y) == Nearest(LegalPos(s, c), x, y) \cup {NoPos}

\* map_move(cell, x, y): direct-place with the outcome `pick`
map_move(s, c, x, y, ph, pick) ==
  LET ok == pick \in Nearest(LegalPos(s, c), x, y)
      s1 == Log(s, Op(s, "map_move", c, 0, x, y, ph, ok))
  IN [s |-> IF ok THEN Paint(s1, c, pick) ELSE s1, ok |-> ok]

\* erase_pixel(cell)
erase_pixel(s, c, ph) ==
  Release(Log(s, Op(s, "erase_pixel", c, 0, 0, 0, ph, TRUE)), c)

\* The outcomes of a local-improvement move: a free position of least
\* displacement that is better than the current one, or failure
RefineOutcomes(s, c) ==
  LET better == {p \in LegalPos(s, c) :
                   Manhattan(p, initLocation(c)) < disp(s, c)}
  IN (IF s.cells[c].is_placed
      THEN Nearest(better, Attr(c).ix, Attr(c).iy) ELSE {}) \cup {NoPos}

\* refine_move(cell)
refine_move(s, c, ph, pick) ==
  LET ok == pick # NoPos /\ pick \in RefineOutcomes(s, c)
      s1 == Log(s, Op(s, "refine_move", c, 0, 0, 0, ph, ok))
  IN [s |-> IF ok THEN Paint(Release(s1, c), c, pick) ELSE s1, ok |-> ok]

\* swap_cell(cellA, cellB) exchanges the positions of two placed cells iff the
\* result is legal for both: two distinct placed cells of the same footprint
CanSwap(s, a, b) ==
  /\ a # b
  /\ s.cells[a].is_placed /\ s.cells[b].is_placed
  /\ Attr(a).w = Attr(b).w /\ isMulti(a) = isMulti(b)

swap_cell(s, a, b) ==
  LET ok == CanSwap(s, a, b)
      pa == <<s.cells[a].x, s.cells[a].y>>
      pb == <<s.cells[b].x, s.cells[b].y>>
  IN [s |-> IF ok
            THEN Paint(Paint(Release(Release(s, a), b), a, pb), b, pa)
            ELSE s,
      ok |-> ok]

\* The outcomes of the shift fallback: failure, or a placed neighbour v that
\* is taken off the grid, the cell committed at p, and v committed again at q
ShiftOutcomes(s, c) ==
  {<<0, NoPos, NoPos>>} \cup
  {o \in (Cells \ {c}) \X Sites \X Sites :
     /\ s.cells[o[1]].is_placed /\ ~isFixed(o[1])
     /\ LET s1 == Release(s, o[1])
        IN /\ o[2] \in Nearest(LegalPos(s1, c), Attr(c).ix, Attr(c).iy)
           /\ o[3] \in Nearest(LegalPos(Paint(s1, c, o[2]), o[1]),
                               Attr(o[1]).ix, Attr(o[1]).iy)}

\* shift_move(cell)
shift_move(s, c, ph, o) ==
  LET ok == o[1] # 0 /\ o \in ShiftOutcomes(s, c)
      s1 == Log(s, Op(s, "shift_move", c, o[1], Attr(c).ix, Attr(c).iy, ph, ok))
  IN [s |-> IF ok THEN Paint(Paint(Release(s1, o[1]), c, o[2]), o[1], o[3])
            ELSE s1,
      ok |-> ok]

-----------------------------------------------------------------------------
(* Sorting *)

\* sortUpOrder with the dense_factor comparison left out
sortUpOrderNoDense(c1, c2) ==
  IF area(c1) > area(c2) THEN TRUE
  ELSE IF area(c1) < area(c2) THEN FALSE
  ELSE Attr(c1).id < Attr(c2).id

\* static bool sortUpOrder(Cell* cell1, Cell* cell2)
sortUpOrder(c1, c2) ==
  IF area(c1) > area(c2) THEN TRUE
  ELSE IF area(c1) < area(c2) THEN FALSE
  ELSE IF Attr(c1).dense_factor > Attr(c2).dense_factor THEN TRUE
  ELSE IF Attr(c1).dense_factor < Attr(c2).dense_factor THEN FALSE
  ELSE Attr(c1).id < Attr(c2).id

\* std::sort(first, last, comp): the orderings a sort can return, those in
\* which no element is put before one that comp orders ahead of it; comp is
\* given as the set of the pairs it holds of
SortedBy(q, comp) ==
  {p \in Perms(q) :
     \A i \in 1..Len(q) : \A k \in 1..Len(q) : i < k => <<p[k], p[i]>> \notin comp}

\* The pairs of elements of q that sortUpOrder holds of
SortUpPairs(q) == {t \in Range(q) \X Range(q) : sortUpOrder(t[1], t[2])}

-----------------------------------------------------------------------------
(* The run: state record, locals, call log *)

NG == Len(design.groups)

NoLoc ==
  [g |-> 0, j |-> 0, list |-> <<>>, multi_pass |-> TRUE, single_pass |-> TRUE,
   round |-> 0, count |-> 0, count_a |-> 0, count_b |-> 0]

Cur ==
  [cells |-> cells, grid |-> grid, pc |-> pc, loc |-> loc, ops |-> ops,
   calls |-> calls]

\* The run goes to state n
Step(n) ==
  /\ cells' = n.cells
  /\ grid' = n.grid
  /\ pc' = n.pc
  /\ loc' = n.loc
  /\ ops' = n.ops
  /\ calls' = n.calls
  /\ UNCHANGED design

\* (n is computed once, then taken)
Assign(n) == \E m \in {n} : Step(m) /\ UNCHANGED twin

\* A function is entered: it is added to the call log, its operation log and
\* locals start empty
Enter(s, fn, g, at) ==
  [s EXCEPT !.calls = Append(@, [ev |-> "call", fn |-> fn, g |-> g, ret |-> 0]),
            !.pc = at, !.ops = <<>>, !.loc = [NoLoc EXCEPT !.g = g, !.j = 1]]

\* A counting function returns
Return(s, fn, g, n) ==
  [s EXCEPT !.calls = Append(@, [ev |-> "ret", fn |-> fn, g |-> g, ret |-> n])]

\* The state a design is loaded into: fixed and pre-placed cells are on the
\* grid at their location, no cell is held, no region is assigned yet
InitCells ==
  [c \in Cells |->
     [is_placed |-> Attr(c).placed0, hold |-> FALSE,
      x |-> Attr(c).ix, y |-> Attr(c).iy, region |-> NoRect]]

InitGrid ==
  [t \in Sites |->
     IF \E c \in Cells : Attr(c).placed0 /\ t \in Footprint(c, initLocation(c))
     THEN CHOOSE c \in Cells : Attr(c).placed0 /\ t \in Footprint(c, initLocation(c))
     ELSE 0]

-----------------------------------------------------------------------------
(* Opendp::simplePlacement, lines 71-108: the sequencing of the passes *)

\* group_cell_region_assign / non_group_cell_region_assign give each cell of
\* their population its region
RegionAssign(s, grouped) ==
  [s EXCEPT !.cells = [c \in Cells |->
     IF inGroup(c) = grouped THEN [@[c] EXCEPT !.region = Attr(c).reg] ELSE @[c]]]

simplePlacement_begin_guarded(s) ==
  IF NG > 0
  THEN Enter(RegionAssign(Enter(RegionAssign(
         Enter(s, "group_cell_region_assign", 0, "start"), TRUE),
         "non_group_cell_region_assign", 0, "start"), FALSE),
         "group_cell_pre_placement", 1, "gpre")
  ELSE Enter(s, "non_group_cell_placement", 0, "ng_list")

\* lines 72-91: region assignment, then the entry into the first pass
simplePlacement_begin(s) ==
  LET s1 == IF NG > 0
            THEN RegionAssign(Enter(s, "group_cell_region_assign", 0, "start"), TRUE)
            ELSE s
      s2 == RegionAssign(Enter(s1, "non_group_cell_region_assign", 0, "start"), FALSE)
  IN IF NG > 0
     THEN Enter(s2, "group_cell_pre_placement", 1, "gpre")
     ELSE Enter(s2, "non_group_cell_placement", 0, "ng_list")

\* lines 97-105: after the rounds of group g, the next group or the last pass
NextRounds(s, g) ==
  IF g < NG THEN Enter(s, "group_refine", g + 1, "gr_sort")
  ELSE Enter(s, "non_group_cell_placement", 0, "ng_list")

-----------------------------------------------------------------------------
(* Opendp::group_cell_pre_placement, lines 135-159 *)

\* lines 142-150: whether the cell is inside some region of the group, and the
\* first region of least dist_for_rect
SnapInGroup(s, g, c) ==
  \E i \in 1..Len(design.groups[g].regions) :
     check_inside(s, c, design.groups[g].regions[i])

SnapTarget(s, g, c) ==
  LET regs == design.groups[g].regions
      best == CHOOSE i \in 1..Len(regs) :
                \A k \in 1..Len(regs) :
                   \/ dist_for_rect(s, c, regs[i]) < dist_for_rect(s, c, regs[k])
                   \/ (dist_for_rect(s, c, regs[i]) = dist_for_rect(s, c, regs[k]) /\ i <= k)
  IN regs[best]

GroupSnapMoves(s, g, c) ==
  ~(isFixed(c) \/ s.cells[c].is_placed) /\ ~SnapInGroup(s, g, c)

GroupSnapCoord(s, g, c) == nearest_coord_to_rect_boundary(s, c, SnapTarget(s, g, c))

\* The outcomes the map_move of this iteration can have
group_cell_pre_placement_picks(s) ==
  LET c == design.groups[s.loc.g].siblings[s.loc.j]
      xy == GroupSnapCoord(s, s.loc.g, c)
  IN IF GroupSnapMoves(s, s.loc.g, c)
     THEN MapMoveOutcomes(s, c, xy[1], xy[2]) ELSE {NoPos}

\* One iteration of the loops of lines 136-158, for sibling j of group g
group_cell_pre_placement_step(s, pick) ==
  LET g == s.loc.g
      c == design.groups[g].siblings[s.loc.j]
      xy == GroupSnapCoord(s, g, c)
      r == map_move(s, c, xy[1], xy[2], "snap", pick)
      s1 == IF GroupSnapMoves(s, g, c)
            THEN IF r.ok THEN [r.s EXCEPT !.cells[c].hold = TRUE] ELSE r.s
            ELSE s
  IN IF s.loc.j < Len(design.groups[g].siblings)
     THEN [s1 EXCEPT !.loc.j = @ + 1]
     ELSE IF g < NG
     THEN [s1 EXCEPT !.loc.g = @ + 1, !.loc.j = 1]
     ELSE Enter(s1, "non_group_cell_pre_placement", 0, "ngpre")

-----------------------------------------------------------------------------
(* Opendp::non_group_cell_pre_placement, lines 110-133 *)

\* lines 116-124: the regions of all groups, in iteration order
AllRegions ==
  LET RECURSIVE Cat(_)
      Cat(i) == IF i > NG THEN <<>> ELSE design.groups[i].regions \o Cat(i + 1)
  IN Cat(1)

\* lines 119-122: every overlapping region overwrites target, so the last
\* overlapping region in iteration order is the one used
OverlapIndex(s, c) ==
  {i \in 1..Len(AllRegions) : check_overlap(s, c, AllRegions[i])}

NonGroupSnapMoves(s, c) ==
  ~inGroup(c) /\ ~s.cells[c].is_placed /\ OverlapIndex(s, c) # {}

NonGroupSnapTarget(s, c) ==
  AllRegions[CHOOSE i \in OverlapIndex(s, c) : \A k \in OverlapIndex(s, c) : k <= i]

NonGroupSnapCoord(s, c) ==
  nearest_coord_to_rect_boundary(s, c, NonGroupSnapTarget(s, c))

non_group_cell_pre_placement_picks(s) ==
  LET c == s.loc.j
      xy == NonGroupSnapCoord(s, c)
  IN IF NonGroupSnapMoves(s, c)
     THEN MapMoveOutcomes(s, c, xy[1], xy[2]) ELSE {NoPos}

\* One iteration of the loop of lines 111-132, for cell j of cells_
non_group_cell_pre_placement_step(s, pick) ==
  LET c == s.loc.j
      xy == NonGroupSnapCoord(s, c)
      r == map_move(s, c, xy[1], xy[2], "snap", pick)
      s1 == IF NonGroupSnapMoves(s, c)
            THEN IF r.ok THEN [r.s EXCEPT !.cells[c].hold = TRUE] ELSE r.s
            ELSE s
  IN IF c < Len(design.cell)
     THEN [s1 EXCEPT !.loc.j = @ + 1]
     ELSE Enter(s1, "group_cell_placement", 1, "gp_list")

-----------------------------------------------------------------------------
(* Opendp::group_cell_placement, lines 188-252 *)

\* lines 194-198: the siblings that are neither fixed nor placed
GroupCandidate(s, c) == ~isFixed(c) /\ ~s.cells[c].is_placed

\* lines 190-199: the locals of one iteration of the loop over groups_
group_cell_placement_list(s) ==
  LET g == s.loc.g
      q == SelectSeq(design.groups[g].siblings, LAMBDA c : GroupCandidate(s, c))
  IN {[s EXCEPT !.pc = "gp_multi", !.ops = <<>>,
                !.loc = [NoLoc EXCEPT !.g = g, !.j = 1, !.list = p]] :
        p \in SortedBy(q, SortUpPairs(q))}

\* lines 203-206, 222-225: whether iteration j of a loop attempts its cell
MultiLoopAttempts(s, c) == ~isFixed(c) /\ ~s.cells[c].is_placed /\ isMulti(c)

SingleLoopAttempts(s, c) == ~isFixed(c) /\ ~s.cells[c].is_placed /\ ~isMulti(c)

\* lines 204, 223: assert(cell->inGroup()) fails
AssertFails(s, c) == ~isFixed(c) /\ ~s.cells[c].is_placed /\ ~inGroup(c)

group_cell_placement_multi_picks(s) ==
  IF s.loc.j > Len(s.loc.list) THEN {NoPos}
  ELSE LET c == s.loc.list[s.loc.j]
       IN IF ~AssertFails(s, c) /\ MultiLoopAttempts(s, c)
          THEN MapMoveOutcomes(s, c, Attr(c).ix, Attr(c).iy) ELSE {NoPos}

\* lines 201-214: one iteration of the multi-deck loop, or its end
group_cell_placement_multi(s, pick) ==
  IF s.loc.j > Len(s.loc.list)
  THEN [s EXCEPT !.pc = "gp_single", !.loc.j = 1]
  ELSE LET c == s.loc.list[s.loc.j]
           r == map_move(s, c, Attr(c).ix, Attr(c).iy, "multi", pick)
       IN IF AssertFails(s, c) THEN [s EXCEPT !.pc = "aborted"]
          ELSE IF ~MultiLoopAttempts(s, c) THEN [s EXCEPT !.loc.j = @ + 1]
          ELSE IF r.ok THEN [r.s EXCEPT !.loc.j = @ + 1]
          ELSE [r.s EXCEPT !.loc.multi_pass = FALSE, !.pc = "gp_end"]

group_cell_placement_single_picks(s) ==
  IF s.loc.j > Len(s.loc.list) THEN {NoPos}
  ELSE LET c == s.loc.list[s.loc.j]
       IN IF ~AssertFails(s, c) /\ SingleLoopAttempts(s, c)
          THEN MapMoveOutcomes(s, c, Attr(c).ix, Attr(c).iy) ELSE {NoPos}

\* lines 216-234: one iteration of the single-deck loop, or its end
group_cell_placement_single(s, pick) ==
  IF s.loc.j > Len(s.loc.list)
  THEN [s EXCEPT !.pc = "gp_end"]
  ELSE LET c == s.loc.list[s.loc.j]
           r == map_move(s, c, Attr(c).ix, Attr(c).iy, "single", pick)
       IN IF AssertFails(s, c) THEN [s EXCEPT !.pc = "aborted"]
          ELSE IF ~SingleLoopAttempts(s, c) THEN [s EXCEPT !.loc.j = @ + 1]
          ELSE IF r.ok THEN [r.s EXCEPT !.loc.j = @ + 1]
          ELSE [r.s EXCEPT !.loc.single_pass = FALSE, !.pc = "gp_end"]

\* lines 238-241: erase_pixel on every sibling of the group
RECURSIVE EraseAll(_, _)
EraseAll(s, q) ==
  IF q = <<>> THEN s ELSE EraseAll(erase_pixel(s, Head(q), "rollback"), Tail(q))

EraseGroupOfList(s, g) == EraseAll(s, s.loc.list)

EraseGroupGridOnly(s, g) ==
  [s EXCEPT !.grid = Mark(@, {t \in Sites : s.grid[t] \in Range(design.groups[g].siblings)}, 0)]

EraseGroup(s, g) == EraseAll(s, design.groups[g].siblings)

\* line 244: the brick strategy by utilization
UsesBrick1AtLimit(g) == design.groups[g].util >= UTIL_LIMIT

UsesBrick1(g) == design.groups[g].util > UTIL_LIMIT

\* line 236: the greedy pass of the group failed
GreedyFailed(s) == ~s.loc.single_pass \/ ~s.loc.multi_pass

\* lines 189, 251: the loop over groups_ goes on, or the function returns to
\* simplePlacement, which starts the rounds of the first group (lines 96-99)
NextGroupPlacement(s) ==
  IF s.loc.g < NG
  THEN [s EXCEPT !.pc = "gp_list", !.loc = [NoLoc EXCEPT !.g = s.loc.g + 1]]
  ELSE Enter(s, "group_refine", 1, "gr_sort")

\* lines 236-250: the end of a group's greedy pass
group_cell_placement_end(s) ==
  IF GreedyFailed(s)
  THEN [EraseGroup(s, s.loc.g) EXCEPT
          !.pc = IF UsesBrick1(s.loc.g) THEN "brick1_sort" ELSE "brick2_sort",
          !.loc.j = 1, !.loc.list = <<>>]
  ELSE NextGroupPlacement(s)

-----------------------------------------------------------------------------
(* Opendp::rectDist, lines 254-285 *)

\* The values an uninitialized int pair can hold
Indeterminate == {<<0, 0>>, <<GridW, 2>>}

\* lines 261-272: the target the four-argument overload computes into its own
\* (by-value) parameters; the caller's x_tar and y_tar are not written
rectDistTarget(c, r) ==
  <<IF Attr(c).ix > (r.xMin + r.xMax) \div 2 THEN r.xMax ELSE r.xMin,
    IF Attr(c).iy > (r.yMin + r.yMax) \div 2 THEN r.yMax ELSE r.yMin>>

\* lines 275-285: the two-argument overload reads its own x_tar and y_tar,
\* which the call of line 280 leaves uninitialized (u)
rectDist(c, r, u) == Manhattan(initLocation(c), u)

-----------------------------------------------------------------------------
(* Opendp::brick_placement_1 and brick_placement_2, lines 287-331 *)

\* lines 290-295, 311-316: the sort compares rectDist values, each computed
\* from uninitialized coordinates, so it can return the siblings in any order
brick_sort(s) ==
  {[s EXCEPT !.pc = IF UsesBrick1(s.loc.g) THEN "brick1" ELSE "brick2",
             !.loc.j = 1, !.loc.list = p] :
     p \in Perms(design.groups[s.loc.g].siblings)}

\* lines 297-306: one iteration of the loop, with x_tar and y_tar never
\* written (u), or the end of the loop
brick_placement_1_picks(s, u) ==
  IF s.loc.j > Len(s.loc.list) THEN {NoPos}
  ELSE MapMoveOutcomes(s, s.loc.list[s.loc.j], u[1], u[2])

\* The loop of lines 297-306 left at the first failed map_move
brick_placement_1_stops(s, u, pick) ==
  IF s.loc.j > Len(s.loc.list)
  THEN NextGroupPlacement(s)
  ELSE LET c == s.loc.list[s.loc.j]
           r == map_move(s, c, u[1], u[2], "brick1", pick)
       IN [r.s EXCEPT !.loc.j = IF r.ok THEN @ + 1 ELSE Len(s.loc.list) + 1]

brick_placement_1(s, u, pick) ==
  IF s.loc.j > Len(s.loc.list)
  THEN NextGroupPlacement(s)
  ELSE LET c == s.loc.list[s.loc.j]
           r == map_move(s, c, u[1], u[2], "brick1", pick)
       IN [r.s EXCEPT !.loc.j = @ + 1]

\* lines 318-330: likewise, skipping the cells that are held
brick_placement_2_picks(s, u) ==
  IF s.loc.j > Len(s.loc.list) THEN {NoPos}
  ELSE IF s.cells[s.loc.list[s.loc.j]].hold THEN {NoPos}
  ELSE MapMoveOutcomes(s, s.loc.list[s.loc.j], u[1], u[2])

brick_placement_2(s, u, pick) ==
  IF s.loc.j > Len(s.loc.list)
  THEN NextGroupPlacement(s)
  ELSE LET c == s.loc.list[s.loc.j]
           r == map_move(s, c, u[1], u[2], "brick2", pick)
       IN IF s.cells[c].hold THEN [s EXCEPT !.loc.j = @ + 1]
          ELSE [r.s EXCEPT !.loc.j = @ + 1]

-----------------------------------------------------------------------------
(* Opendp::group_refine, lines 333-350 *)

\* lines 336-339: the comparator compares disp(cell1) with itself
group_refine_comp(s, c1, c2) == disp(s, c1) > disp(s, c1)

\* lines 334-341
group_refine_sort(s) ==
  {[s EXCEPT !.pc = "gr_loop", !.loc.j = 0, !.loc.count = 0, !.loc.list = p] :
     p \in SortedBy(design.groups[s.loc.g].siblings,
                    {t \in Cells \X Cells : group_refine_comp(s, t[1], t[2])})}

\* line 342: i < sort_by_disp.size() * group_refine_percent_
RefineLoopGoesOn(s) == s.loc.j * 100 < Len(s.loc.list) * design.percent

refine_picks(s) ==
  IF RefineLoopGoesOn(s) /\ ~s.cells[s.loc.list[s.loc.j + 1]].hold
  THEN RefineOutcomes(s, s.loc.list[s.loc.j + 1]) ELSE {NoPos}

\* lines 342-349: one iteration of the loop, or the return of count
group_refine(s, pick) ==
  IF ~RefineLoopGoesOn(s)
  THEN [Return(s, "group_refine", s.loc.g, s.loc.count) EXCEPT
          !.pc = "ga", !.loc.count_a = s.loc.count, !.loc.count = 0,
          !.loc.list = <<>>, !.loc.j = 0, !.ops = <<>>,
          !.calls = Append(@, [ev |-> "call", fn |-> "group_annealing",
                               g |-> s.loc.g, ret |-> 0])]
  ELSE LET c == s.loc.list[s.loc.j + 1]
           r == refine_move(s, c, "group_refine", pick)
       IN IF s.cells[c].hold THEN [s EXCEPT !.loc.j = @ + 1]
          ELSE [r.s EXCEPT !.loc.j = @ + 1,
                           !.loc.count = IF r.ok THEN @ + 1 ELSE @]

-----------------------------------------------------------------------------
(* Opendp::group_annealing and non_group_annealing, lines 352-381 *)

\* rand(): a linear congruential generator of 16 bits; srand sets its state
RandNext(r) == (r * 25173 + 13849) % 65536

RandValue(r) == r \div 4

\* lines 358-363: one trial over the population q; a is the running state:
\* cells, grid, the generator, count, the cells handed to swap_cell while
\* held, the pairs drawn in the first trials
KeptPairs == 4

\* line 361: if(!cellA->hold && !cellB->hold)
SwapTriedOneSided(a, cellA, cellB) == ~a.cells[cellA].hold

SwapTried(a, cellA, cellB) == ~a.cells[cellA].hold /\ ~a.cells[cellB].hold

AnnealTrial(a, q) ==
  CHOOSE n \in UNION {
    {LET try == SwapTried(a, q[i], q[j])
     IN [(IF try THEN r.s ELSE a) EXCEPT
           !.rng = RandNext(RandNext(a.rng)),
           !.count = IF try /\ r.ok THEN @ + 1 ELSE @,
           !.trials = @ + 1,
           !.swapped = IF try THEN @ \cup {q[i], q[j]} ELSE @,
           !.pairs = IF Len(@) < KeptPairs THEN Append(@, <<i, j>>) ELSE @] :
       r \in {IF SwapTried(a, q[i], q[j]) THEN swap_cell(a, q[i], q[j])
               ELSE [s |-> a, ok |-> FALSE]}} :
    i \in {(RandValue(RandNext(a.rng)) % Len(q)) + 1},
    j \in {(RandValue(RandNext(RandNext(a.rng))) % Len(q)) + 1}} : TRUE

\* The trials lo .. hi-1 of the loop, in order
RECURSIVE AnnealLoop(_, _, _, _)
AnnealLoop(a, q, lo, hi) ==
  IF hi <= lo THEN a
  ELSE IF hi = lo + 1 THEN AnnealTrial(a, q)
  ELSE CHOOSE r \in UNION {{AnnealLoop(left, q, mid, hi) :
                               left \in {AnnealLoop(a, q, lo, mid)}} :
                             mid \in {(lo + hi) \div 2}} : TRUE

\* The loop of line 357 with the bound n - 1
AnnealingShort(s, q, n) ==
  AnnealLoop([cells |-> s.cells, grid |-> s.grid, rng |-> SEED, count |-> 0,
              trials |-> 0, swapped |-> {}, pairs |-> <<>>], q, 0, n - 1)

\* lines 353-366 and 370-380: srand(777), the trials, the count
Annealing(s, q, n) ==
  AnnealLoop([cells |-> s.cells, grid |-> s.grid, rng |-> SEED, count |-> 0,
              trials |-> 0, swapped |-> {}, pairs |-> <<>>], q, 0, n)

\* int Opendp::group_annealing(Group* group), as one step; the operation log
\* keeps a summary of its swap_cell calls
group_annealing_return(s, count) ==
  [Return(s, "group_annealing", s.loc.g, count) EXCEPT
     !.pc = "round_end", !.loc.count_b = count]

group_annealing(s) ==
  LET q == design.groups[s.loc.g].siblings
  IN CHOOSE n \in
       {[group_annealing_return(s, a.count) EXCEPT
           !.cells = a.cells, !.grid = a.grid,
           !.ops = <<[op |-> "swap_cell", n |-> Len(q), trials |-> a.trials,
                      swapped |-> a.swapped, pairs |-> a.pairs,
                      held |-> {c \in Cells : s.cells[c].hold}]>>] :
          a \in {Annealing(s, q, GROUP_TRIALS * Len(q))}} : TRUE

\* line 101 with && in the place of ||
RoundBreaksBoth(count_a, count_b) == count_a < MIN_REFINE /\ count_b < MIN_SWAP

\* line 101: the round was the last one of the group
RoundBreaks(count_a, count_b) == count_a < MIN_REFINE \/ count_b < MIN_SWAP

\* lines 98-102: the end of a round
round_end(s) ==
  IF RoundBreaks(s.loc.count_a, s.loc.count_b) \/ s.loc.round + 1 >= MAX_ROUNDS
  THEN NextRounds(s, s.loc.g)
  ELSE [Enter(s, "group_refine", s.loc.g, "gr_sort") EXCEPT
          !.loc.round = s.loc.round + 1]

-----------------------------------------------------------------------------
(* Opendp::non_group_cell_placement, lines 161-186 *)

\* line 166
NonGroupCandidateAlsoPlaced(s, c) == ~(isFixed(c) \/ inGroup(c))

NonGroupCandidate(s, c) == ~(isFixed(c) \/ inGroup(c) \/ s.cells[c].is_placed)

\* lines 162-169
non_group_cell_placement_list(s) ==
  LET q == SelectSeq(cells_, LAMBDA c : NonGroupCandidate(s, c))
  IN {[s EXCEPT !.pc = "ng_multi", !.loc.j = 1, !.loc.list = p] :
        p \in SortedBy(q, SortUpPairs(q))}

\* lines 173, 180: the cells the first and the second loop attempt
FirstLoopAttemptsNone(c) == FALSE

FirstLoopAttempts(c) == isMulti(c)

SecondLoopAttemptsAll(c) == TRUE

SecondLoopAttempts(c) == ~isMulti(c)

\* The outcomes of one attempt: the direct placement, and the shift fallback
\* tried when it fails
AttemptOutcomes(s, c) ==
  {<<p, <<0, NoPos, NoPos>>>> : p \in MapMoveOutcomes(s, c, Attr(c).ix, Attr(c).iy) \ {NoPos}}
  \cup {<<NoPos, o>> : o \in ShiftOutcomes(s, c)}

\* lines 174-175, 181-182: if(!map_move(cell)) shift_move(cell)
Attempt(s, c, ph, o) ==
  LET r == map_move(s, c, Attr(c).ix, Attr(c).iy, ph, o[1])
  IN IF r.ok THEN r.s ELSE shift_move(r.s, c, ph, o[2]).s

non_group_cell_placement_multi_picks(s) ==
  IF s.loc.j <= Len(s.loc.list) /\ FirstLoopAttempts(s.loc.list[s.loc.j])
  THEN AttemptOutcomes(s, s.loc.list[s.loc.j])
  ELSE {<<NoPos, <<0, NoPos, NoPos>>>>}

\* lines 171-177: one iteration of the first loop, or its end
non_group_cell_placement_multi(s, o) ==
  IF s.loc.j > Len(s.loc.list) THEN [s EXCEPT !.pc = "ng_single", !.loc.j = 1]
  ELSE LET c == s.loc.list[s.loc.j]
       IN IF FirstLoopAttempts(c)
          THEN [Attempt(s, c, "multi", o) EXCEPT !.loc.j = @ + 1]
          ELSE [s EXCEPT !.loc.j = @ + 1]

non_group_cell_placement_single_picks(s) ==
  IF s.loc.j <= Len(s.loc.list) /\ SecondLoopAttempts(s.loc.list[s.loc.j])
  THEN AttemptOutcomes(s, s.loc.list[s.loc.j])
  ELSE {<<NoPos, <<0, NoPos, NoPos>>>>}

\* lines 178-185: one iteration of the second loop, or the return
non_group_cell_placement_single(s, o) ==
  IF s.loc.j > Len(s.loc.list)
  THEN [s EXCEPT !.pc = "done", !.loc = NoLoc]
  ELSE LET c == s.loc.list[s.loc.j]
       IN IF SecondLoopAttempts(c)
          THEN [Attempt(s, c, "single", o) EXCEPT !.loc.j = @ + 1]
          ELSE [s EXCEPT !.loc.j = @ + 1]

-----------------------------------------------------------------------------
(* Opendp::non_group_refine and non_group_annealing, lines 369-405: not called
   by simplePlacement; a caller may run them once the placement is done *)

\* line 388
NonGroupRefineCandidate(s, c) == ~(isFixed(c) \/ s.cells[c].hold \/ inGroup(c))

\* lines 391-394
non_group_refine_comp(s, c1, c2) == disp(s, c1) > disp(s, c2)

\* lines 384-396
non_group_refine_sort(s) ==
  LET q == SelectSeq(cells_, LAMBDA c : NonGroupRefineCandidate(s, c))
      s1 == Enter(s, "non_group_refine", 0, "ngr_loop")
  IN {[s1 EXCEPT !.loc.j = 0, !.loc.list = p] :
        p \in SortedBy(q, {t \in Cells \X Cells : non_group_refine_comp(s, t[1], t[2])})}

\* lines 397-404: one iteration of the loop, or the return of count
non_group_refine(s, pick) ==
  IF ~RefineLoopGoesOn(s)
  THEN [Return(s, "non_group_refine", 0, s.loc.count) EXCEPT
          !.pc = "refined", !.loc = NoLoc]
  ELSE LET c == s.loc.list[s.loc.j + 1]
           r == refine_move(s, c, "non_group_refine", pick)
       IN IF s.cells[c].hold THEN [s EXCEPT !.loc.j = @ + 1]
          ELSE [r.s EXCEPT !.loc.j = @ + 1,
                           !.loc.count = IF r.ok THEN @ + 1 ELSE @]

\* int Opendp::non_group_annealing(), as one step
non_group_annealing(s) ==
  LET q == cells_
      s1 == Enter(s, "non_group_annealing", 0, "end")
  IN CHOOSE n \in
       {[Return(s1, "non_group_annealing", 0, a.count) EXCEPT
           !.cells = a.cells, !.grid = a.grid, !.loc = NoLoc,
           !.ops = <<[op |-> "swap_cell", n |-> Len(q), trials |-> a.trials,
                      swapped |-> a.swapped, pairs |-> a.pairs,
                      held |-> {c \in Cells : s.cells[c].hold}]>>] :
          a \in {Annealing(s, q, NON_GROUP_TRIALS * Len(q))}} : TRUE

-----------------------------------------------------------------------------
(* The state machine *)

NoTwin == <<>>

\* simplePlacement is called on the design as loaded
Start ==
  /\ cells = InitCells
  /\ grid = InitGrid
  /\ pc = "start"
  /\ loc = NoLoc
  /\ ops = <<>>
  /\ calls = <<>>

Init ==
  /\ design \in Designs
  /\ twin = NoTwin
  /\ Start

SimplePlacement ==
  /\ pc = "start"
  /\ Assign(simplePlacement_begin(Cur))

GroupCellPrePlacement ==
  /\ pc = "gpre"
  /\ \E pick \in group_cell_pre_placement_picks(Cur) :
        Assign(group_cell_pre_placement_step(Cur, pick))

NonGroupCellPrePlacement ==
  /\ pc = "ngpre"
  /\ \E pick \in non_group_cell_pre_placement_picks(Cur) :
        Assign(non_group_cell_pre_placement_step(Cur, pick))

GroupCellPlacementList ==
  /\ pc = "gp_list"
  /\ \E n \in group_cell_placement_list(Cur) : Assign(n)

GroupCellPlacementMulti ==
  /\ pc = "gp_multi"
  /\ \E pick \in group_cell_placement_multi_picks(Cur) :
        Assign(group_cell_placement_multi(Cur, pick))

GroupCellPlacementSingle ==
  /\ pc = "gp_single"
  /\ \E pick \in group_cell_placement_single_picks(Cur) :
        Assign(group_cell_placement_single(Cur, pick))

GroupCellPlacementEnd ==
  /\ pc = "gp_end"
  /\ Assign(group_cell_placement_end(Cur))

BrickSort ==
  /\ pc \in {"brick1_sort", "brick2_sort"}
  /\ \E n \in brick_sort(Cur) : Assign(n)

BrickPlacement1 ==
  /\ pc = "brick1"
  /\ \E u \in Indeterminate : \E pick \in brick_placement_1_picks(Cur, u) :
        Assign(brick_placement_1(Cur, u, pick))

BrickPlacement2 ==
  /\ pc = "brick2"
  /\ \E u \in Indeterminate : \E pick \in brick_placement_2_picks(Cur, u) :
        Assign(brick_placement_2(Cur, u, pick))

GroupRefineSort ==
  /\ pc = "gr_sort"
  /\ \E n \in group_refine_sort(Cur) : Assign(n)

GroupRefine ==
  /\ pc = "gr_loop"
  /\ \E pick \in refine_picks(Cur) : Assign(group_refine(Cur, pick))

GroupAnnealing ==
  /\ pc = "ga"
  /\ Assign(group_annealing(Cur))

RoundEnd ==
  /\ pc = "round_end"
  /\ Assign(round_end(Cur))

NonGroupCellPlacementList ==
  /\ pc = "ng_list"
  /\ \E n \in non_group_cell_placement_list(Cur) : Assign(n)

NonGroupCellPlacementMulti ==
  /\ pc = "ng_multi"
  /\ \E o \in non_group_cell_placement_multi_picks(Cur) :
        Assign(non_group_cell_placement_multi(Cur, o))

NonGroupCellPlacementSingle ==
  /\ pc = "ng_single"
  /\ \E o \in non_group_cell_placement_single_picks(Cur) :
        Assign(non_group_cell_placement_single(Cur, o))

NonGroupRefineSort ==
  /\ pc = "done"
  /\ \E n \in non_group_refine_sort(Cur) : Assign(n)

NonGroupRefine ==
  /\ pc = "ngr_loop"
  /\ \E pick \in refine_picks(Cur) : Assign(non_group_refine(Cur, pick))

NonGroupAnnealing ==
  /\ pc = "refined"
  /\ Assign(non_group_annealing(Cur))

Next ==
  \/ SimplePlacement
  \/ GroupCellPrePlacement
  \/ NonGroupCellPrePlacement
  \/ GroupCellPlacementList
  \/ GroupCellPlacementMulti
  \/ GroupCellPlacementSingle
  \/ GroupCellPlacementEnd
  \/ BrickSort
  \/ BrickPlacement1
  \/ BrickPlacement2
  \/ GroupRefineSort
  \/ GroupRefine
  \/ GroupAnnealing
  \/ RoundEnd
  \/ NonGroupCellPlacementList
  \/ NonGroupCellPlacementMulti
  \/ NonGroupCellPlacementSingle
  \/ NonGroupRefineSort
  \/ NonGroupRefine
  \/ NonGroupAnnealing

Spec == Init /\ [][Next]_vars

\* The run is sequential code without waits: a step that can be taken is taken
SpecLive == Init /\ [][Next]_vars /\ WF_vars(Next)

\* The run of simplePlacement on the designs without groups
\* The run on the designs above and on the two further designs
InitWide ==
  /\ design \in Designs \cup {StrayDesign, OverlapDesign}
  /\ twin = NoTwin
  /\ Start

SpecWide == InitWide /\ [][Next]_vars

InitSort ==
  /\ design \in SortDesigns
  /\ twin = NoTwin
  /\ Start

NextSort ==
  \/ SimplePlacement
  \/ NonGroupCellPlacementList
  \/ NonGroupCellPlacementMulti
  \/ NonGroupCellPlacementSingle

SpecSort == InitSort /\ [][NextSort]_vars

\* The rounds of lines 97-104 on the design of two groups of ten siblings, from
\* the return of group_cell_placement with no cell placed.  group_refine and
\* group_annealing are taken by what they return: group_refine a count of at
\* most the number of siblings, group_annealing a count of swaps.
RoundsStart ==
  Enter(Enter(Enter(simplePlacement_begin(
      [cells |-> InitCells, grid |-> InitGrid, pc |-> "start", loc |-> NoLoc,
       ops |-> <<>>, calls |-> <<>>]),
      "non_group_cell_pre_placement", 0, "ngpre"),
      "group_cell_placement", 1, "gp_list"),
      "group_refine", 1, "gr_sort")

InitRounds ==
  /\ design = RoundsDesign
  /\ twin = NoTwin
  /\ cells = RoundsStart.cells
  /\ grid = RoundsStart.grid
  /\ pc = RoundsStart.pc
  /\ loc = RoundsStart.loc
  /\ ops = RoundsStart.ops
  /\ calls = RoundsStart.calls

GroupRefineReturns ==
  /\ pc = "gr_sort"
  /\ \E n \in {0, 5, 9, 10} :
        LET q == design.groups[loc.g].siblings
        IN Assign(group_refine([Cur EXCEPT !.pc = "gr_loop", !.loc.list = q,
                                           !.loc.j = Len(q), !.loc.count = n],
                               NoPos))

GroupAnnealingReturns ==
  /\ pc = "ga"
  /\ \E n \in {0, 99, 100, 101} : Assign(group_annealing_return(Cur, n))

NextRoundsOnly ==
  \/ GroupRefineReturns
  \/ GroupAnnealingReturns
  \/ RoundEnd

SpecRounds == InitRounds /\ [][NextRoundsOnly]_vars

\* Two runs of simplePlacement on the same design, side by side: the run of the
\* variables and the run kept in twin.  From equal states a handler whose code
\* is a function of the state takes the same step in both runs (the grid
\* primitives are deterministic, and std::sort is a function of its input);
\* what the brick placements read from uninitialized variables is chosen for
\* each run apart.  The pair is followed as long as the two runs are equal.
InitTwin ==
  /\ design \in Designs
  /\ Start
  /\ twin = Cur

Both(n, m) == Step(n) /\ twin' = m

\* The steps of the handlers other than the brick placements, from state s
Succ(s) ==
  CASE s.pc = "start" -> {simplePlacement_begin(s)}
    [] s.pc = "gpre" ->
         {group_cell_pre_placement_step(s, o) : o \in group_cell_pre_placement_picks(s)}
    [] s.pc = "ngpre" ->
         {non_group_cell_pre_placement_step(s, o) :
            o \in non_group_cell_pre_placement_picks(s)}
    [] s.pc = "gp_list" -> group_cell_placement_list(s)
    [] s.pc = "gp_multi" ->
         {group_cell_placement_multi(s, o) : o \in group_cell_placement_multi_picks(s)}
    [] s.pc = "gp_single" ->
         {group_cell_placement_single(s, o) : o \in group_cell_placement_single_picks(s)}
    [] s.pc = "gp_end" -> {group_cell_placement_end(s)}
    [] s.pc = "gr_sort" -> group_refine_sort(s)
    [] s.pc = "gr_loop" -> {group_refine(s, o) : o \in refine_picks(s)}
    [] s.pc = "ga" -> {group_annealing(s)}
    [] s.pc = "round_end" -> {round_end(s)}
    [] s.pc = "ng_list" -> non_group_cell_placement_list(s)
    [] s.pc = "ng_multi" ->
         {non_group_cell_placement_multi(s, o) :
            o \in non_group_cell_placement_multi_picks(s)}
    [] s.pc = "ng_single" ->
         {non_group_cell_placement_single(s, o) :
            o \in non_group_cell_placement_single_picks(s)}
    [] s.pc = "done" -> non_group_refine_sort(s)
    [] s.pc = "ngr_loop" -> {non_group_refine(s, o) : o \in refine_picks(s)}
    [] s.pc = "refined" -> {non_group_annealing(s)}
    [] OTHER -> {}

\* Both runs take the same step of a handler that is a function of the state
TwinStep ==
  /\ twin = Cur
  /\ \E n \in Succ(Cur) : Both(n, n)

TwinBrickSort ==
  /\ twin = Cur /\ pc \in {"brick1_sort", "brick2_sort"}
  /\ \E n \in brick_sort(Cur) : \E m \in brick_sort(twin) : Both(n, m)

TwinBrickPlacement1 ==
  /\ twin = Cur /\ pc = "brick1"
  /\ \E u1 \in Indeterminate : \E u2 \in Indeterminate :
     \E p1 \in brick_placement_1_picks(Cur, u1) :
     \E p2 \in brick_placement_1_picks(twin, u2) :
        /\ u1 = u2 => p1 = p2
        /\ Both(brick_placement_1(Cur, u1, p1), brick_placement_1(twin, u2, p2))

TwinBrickPlacement2 ==
  /\ twin = Cur /\ pc = "brick2"
  /\ \E u1 \in Indeterminate : \E u2 \in Indeterminate :
     \E p1 \in brick_placement_2_picks(Cur, u1) :
     \E p2 \in brick_placement_2_picks(twin, u2) :
        /\ u1 = u2 => p1 = p2
        /\ Both(brick_placement_2(Cur, u1, p1), brick_placement_2(twin, u2, p2))

NextTwin ==
  \/ TwinStep
  \/ TwinBrickSort
  \/ TwinBrickPlacement1
  \/ TwinBrickPlacement2

SpecDet == InitTwin /\ [][NextTwin]_vars

-----------------------------------------------------------------------------
(* Properties *)

Siblings(g) == Range(design.groups[g].siblings)

Pos(c) == <<cells[c].x, cells[c].y>>

\* A direct-placement or shift attempt made by a loop of a greedy pass
GreedyAttempt(e) ==
  e.op \in {"map_move", "shift_move"} /\ e.ph \in {"multi", "single"}

BrickEntry == {"brick1_sort", "brick2_sort"}

GroupPlacementPcs ==
  {"gp_multi", "gp_single", "gp_end", "brick1_sort", "brick2_sort", "brick1", "brick2"}

\* C1: when brick_placement_1 or brick_placement_2 is entered for a group, no
\* sibling of the group is placed or holds a site of the grid.
GroupRollbackAtomicity ==
  pc \in BrickEntry =>
    \A c \in Siblings(loc.g) :
       ~cells[c].is_placed /\ \A t \in Sites : grid[t] # c

\* A brick fallback is entered after the rollback took a held (snapped)
\* sibling and a sibling committed by the failed pass off the grid
GroupRollbackWitness ==
  /\ pc \in BrickEntry
  /\ \E i \in 1..Len(ops) :
        /\ ops[i].op = "erase_pixel" /\ ops[i].placed /\ ops[i].hold
        /\ ops[i].cell \in Siblings(loc.g)
  /\ \E i \in 1..Len(ops) : \E k \in 1..Len(ops) :
        /\ i < k
        /\ GreedyAttempt(ops[i]) /\ ops[i].ok
        /\ ops[k].op = "erase_pixel" /\ ops[k].placed /\ ops[k].cell = ops[i].cell

\* C2: in the operation log of one scope every greedy attempt on a multi-row
\* cell precedes every greedy attempt on a single-row cell, and a group whose
\* multi-row pass failed has no greedy attempt on a single-row cell.
MultiBeforeSingle ==
  /\ \A i \in 1..Len(ops) : \A k \in 1..Len(ops) :
        (i < k /\ GreedyAttempt(ops[i]) /\ GreedyAttempt(ops[k])
           /\ ~isMulti(ops[i].cell)) => ~isMulti(ops[k].cell)
  /\ (pc \in GroupPlacementPcs /\ ~loc.multi_pass) =>
        \A i \in 1..Len(ops) : GreedyAttempt(ops[i]) => isMulti(ops[i].cell)

\* A single-row cell that sortUpOrder puts ahead of a multi-row cell was
\* attempted after it
MultiBeforeSingleWitness ==
  \E i \in 1..Len(ops) : \E k \in 1..Len(ops) :
     /\ i < k /\ GreedyAttempt(ops[i]) /\ GreedyAttempt(ops[k])
     /\ isMulti(ops[i].cell) /\ ~isMulti(ops[k].cell)
     /\ sortUpOrder(ops[k].cell, ops[i].cell)

\* The order of the spec: larger area, then larger dense_factor, then smaller id
Precedes(c1, c2) ==
  \/ area(c1) > area(c2)
  \/ area(c1) = area(c2) /\ Attr(c1).dense_factor > Attr(c2).dense_factor
  \/ /\ area(c1) = area(c2) /\ Attr(c1).dense_factor = Attr(c2).dense_factor
     /\ Attr(c1).id < Attr(c2).id

\* The ids of the cells in the order of their direct-placement attempts
RECURSIVE VisitedIds(_)
VisitedIds(q) ==
  IF q = <<>> THEN <<>>
  ELSE IF Head(q).op = "map_move" /\ GreedyAttempt(Head(q))
       THEN <<Attr(Head(q).cell).id>> \o VisitedIds(Tail(q))
       ELSE VisitedIds(Tail(q))

\* The cells of the design are those of the example, all of one tier
ExampleCells ==
  /\ {<<area(c), Attr(c).dense_factor, Attr(c).id>> : c \in Cells}
       = {<<10, 1, 5>>, <<10, 2, 3>>, <<5, 1, 9>>}
  /\ \A c \in Cells : ~isMulti(c)

\* C3: the direct-placement attempts of one tier are made in the order larger
\* area, then larger dense_factor, then smaller id; sortUpOrder is irreflexive,
\* antisymmetric, transitive and total on the cells; the cells (10,1,5),
\* (10,2,3), (5,1,9) are visited in the order of ids 3, 5, 9.
OrderingLaw ==
  /\ \A i \in 1..Len(ops) : \A k \in 1..Len(ops) :
        (i < k /\ GreedyAttempt(ops[i]) /\ GreedyAttempt(ops[k])
           /\ ops[i].ph = ops[k].ph /\ ops[i].cell # ops[k].cell)
        => Precedes(ops[i].cell, ops[k].cell)
  /\ \A c1 \in Cells : ~sortUpOrder(c1, c1)
  /\ \A c1 \in Cells : \A c2 \in Cells :
        /\ sortUpOrder(c1, c2) => ~sortUpOrder(c2, c1)
        /\ c1 # c2 => sortUpOrder(c1, c2) \/ sortUpOrder(c2, c1)
        /\ \A c3 \in Cells :
              sortUpOrder(c1, c2) /\ sortUpOrder(c2, c3) => sortUpOrder(c1, c3)
  /\ (pc = "done" /\ ExampleCells) => VisitedIds(ops) = <<3, 5, 9>>

\* The pass is over for the cells of the example, loaded in the order of ids
\* 9, 5, 3, and each of them was attempted
OrderingLawWitness ==
  /\ pc = "done" /\ ExampleCells
  /\ <<Attr(1).id, Attr(2).id, Attr(3).id>> = <<9, 5, 3>>
  /\ VisitedIds(ops) = <<3, 5, 9>>

IsCall(i, fn, g) == calls[i].ev = "call" /\ calls[i].fn = fn /\ calls[i].g = g

IsRet(i, fn, g) == calls[i].ev = "ret" /\ calls[i].fn = fn /\ calls[i].g = g

\* The rounds of group g begun among the first i entries of the call log
RoundsUpTo(g, i) == Cardinality({k \in 1..i : IsCall(k, "group_refine", g)})

FirstRefineReturn(g) ==
  LET R == {i \in 1..Len(calls) : IsRet(i, "group_refine", g)}
  IN IF R = {} THEN -1 ELSE calls[SetMin(R)].ret

\* C5: a group gets between 1 and 3 rounds, a round being a group_refine call
\* followed by a group_annealing call; a round that is not the third is
\* followed by another round of the group iff its refine count is >= 10 and its
\* swap count >= 100; a group whose first refine returns 5 gets one round only,
\* annealing call included.
RoundCutoff ==
  \A g \in 1..NG :
     /\ RoundsUpTo(g, Len(calls)) <= 3
     /\ pc \in {"ng_list", "ng_multi", "ng_single", "done"} =>
           RoundsUpTo(g, Len(calls)) >= 1
     /\ \A i \in 1..Len(calls) :
           /\ (IsCall(i, "group_refine", g) /\ i < Len(calls)) =>
                 IsRet(i + 1, "group_refine", g)
           /\ (IsRet(i, "group_refine", g) /\ i < Len(calls)) =>
                 IsCall(i + 1, "group_annealing", g)
           /\ (IsCall(i, "group_annealing", g) /\ i < Len(calls)) =>
                 IsRet(i + 1, "group_annealing", g)
           /\ (IsRet(i, "group_annealing", g) /\ i < Len(calls)) =>
                 (IsCall(i + 1, "group_refine", g)
                    <=> /\ RoundsUpTo(g, i) < 3
                        /\ calls[i - 2].ret >= 10
                        /\ calls[i].ret >= 100)
     /\ (FirstRefineReturn(g) = 5 /\ pc = "ng_list") =>
           /\ RoundsUpTo(g, Len(calls)) = 1
           /\ Cardinality({i \in 1..Len(calls) : IsCall(i, "group_annealing", g)}) = 1

\* The rounds are over: one group stopped after a first refine count of 5, the
\* other went through three rounds
RoundCutoffWitness ==
  /\ pc = "ng_list"
  /\ FirstRefineReturn(1) = 5 /\ RoundsUpTo(1, Len(calls)) = 1
  /\ RoundsUpTo(2, Len(calls)) = 3

\* The program positions inside a refine or an annealing call
RefineAnnealPcs == {"gr_sort", "gr_loop", "ga", "done", "ngr_loop", "refined"}

\* A step of a refine or annealing call leaves the held cells where they are
HeldCellsStay ==
  pc \in RefineAnnealPcs =>
  \A c \in Cells :
     cells[c].hold =>
       /\ cells'[c].x = cells[c].x
       /\ cells'[c].y = cells[c].y
       /\ cells'[c].is_placed = cells[c].is_placed
       /\ cells'[c].hold = TRUE

NoCallOnHeld ==
  \A i \in 1..Len(ops) :
     /\ ops[i].op = "refine_move" => ~ops[i].hold
     /\ ops[i].op = "swap_cell" => ops[i].swapped \cap ops[i].held = {}

\* C4: no refine_move is made on a held cell and no swap_cell is made with a
\* held argument, and no step of a refine or annealing call changes the
\* position or the placed state of a held cell.
HoldFreeze ==
  [](NoCallOnHeld) /\ [][HeldCellsStay]_vars

\* An annealing call drew pairs with a held cell around, and swapped others
HoldFreezeWitness ==
  /\ Len(ops) = 1 /\ ops[1].op = "swap_cell"
  /\ ops[1].held # {} /\ ops[1].swapped # {}
  /\ calls[Len(calls)].ret > 0

BrickAgreesWithUtil ==
  /\ pc \in {"brick1_sort", "brick1"} =>
       design.groups[loc.g].util > 95 /\ (~loc.multi_pass \/ ~loc.single_pass)
  /\ pc \in {"brick2_sort", "brick2"} =>
       design.groups[loc.g].util <= 95 /\ (~loc.multi_pass \/ ~loc.single_pass)
  /\ \A i \in 1..Len(ops) :
       (ops[i].op = "map_move" /\ ops[i].ph \in {"brick1", "brick2"}) =>
         ops[i].ph = (IF design.groups[loc.g].util > 95 THEN "brick1" ELSE "brick2")

BrickChosenAtEnd ==
  pc = "gp_end" =>
    IF ~loc.multi_pass \/ ~loc.single_pass
    THEN pc' = (IF design.groups[loc.g].util > 95 THEN "brick1_sort" ELSE "brick2_sort")
    ELSE pc' \notin {"brick1_sort", "brick2_sort", "brick1", "brick2"}

\* C6: after a failed greedy pass brick_placement_1 runs iff util > 0.95 and
\* brick_placement_2 otherwise; no brick placement follows a pass that succeeded.
UtilizationThreshold ==
  [](BrickAgreesWithUtil) /\ [][BrickChosenAtEnd]_vars

\* A group of utilization exactly 0.95 is in brick_placement_2
UtilizationThresholdWitness ==
  /\ pc = "brick2" /\ design.groups[loc.g].util = 95
  /\ \E i \in 1..Len(ops) : ops[i].op = "map_move" /\ ops[i].ph = "brick2"

\* C7: two runs of simplePlacement on the same design have issued the same
\* grid operations, hold the same coordinates, is_placed and hold for every
\* cell, and have got the same refine and annealing counts.
Determinism ==
  twin # NoTwin =>
    /\ twin.ops = ops
    /\ twin.cells = cells
    /\ twin.calls = calls

\* C8: no greedy attempt is made on a cell that is placed when the call is
\* made, and a pass makes at most one direct-placement attempt per cell.
NonRegressionOfPlaced ==
  /\ \A i \in 1..Len(ops) : GreedyAttempt(ops[i]) => ~ops[i].placed
  /\ \A i \in 1..Len(ops) : \A k \in 1..Len(ops) :
        (i # k /\ GreedyAttempt(ops[i]) /\ GreedyAttempt(ops[k])
           /\ ops[i].op = "map_move" /\ ops[k].op = "map_move")
        => ops[i].cell # ops[k].cell

\* A group pass ended having attempted siblings and skipped a sibling that
\* was placed before the pass
NonRegressionWitness ==
  /\ pc = "gp_end"
  /\ \E i \in 1..Len(ops) : GreedyAttempt(ops[i]) /\ ops[i].ok
  /\ \E c \in Siblings(loc.g) :
        /\ ~isFixed(c) /\ cells[c].is_placed
        /\ \A i \in 1..Len(ops) : ops[i].cell # c

RegionAssigns == {"group_cell_region_assign", "non_group_cell_region_assign"}

\* C10 as stated: a region assignment is called only if a group exists.
RegionAssignOnlyWithGroups ==
  \A i \in 1..Len(calls) : calls[i].fn \in RegionAssigns => NG > 0

\* C10, amended: group region assignment is called iff a group exists;
\* non-group region assignment is called once in every run, after the group
\* region assignment (if any) and before every pass.
RegionAssignOrder ==
  pc # "start" =>
    /\ Len(calls) > (IF NG > 0 THEN 2 ELSE 1)
    /\ NG > 0 => /\ calls[1].fn = "group_cell_region_assign"
                 /\ calls[2].fn = "non_group_cell_region_assign"
    /\ NG = 0 => calls[1].fn = "non_group_cell_region_assign"
    /\ \A i \in 1..Len(calls) :
          i > (IF NG > 0 THEN 2 ELSE 1) => calls[i].fn \notin RegionAssigns

\* A run without groups has assigned regions and entered the non-group pass
RegionAssignWitness ==
  /\ NG = 0 /\ pc = "ng_list"
  /\ calls[1].fn = "non_group_cell_region_assign"
  /\ calls[2].fn = "non_group_cell_placement"

\* The refine_move calls of the running group_refine call
RefineAttempts ==
  Cardinality({i \in 1..Len(ops) : ops[i].op = "refine_move"})

\* The run has not aborted, no group has had more than 3 rounds, and a
\* group_annealing call has made 1000 * |siblings| trials
LoopBounds ==
  /\ pc # "aborted"
  /\ \A g \in 1..NG : RoundsUpTo(g, Len(calls)) <= 3
  /\ pc = "round_end" =>
        ops[1].trials = 1000 * Len(design.groups[loc.g].siblings)

\* A group_refine call makes at most |siblings| * group_refine_percent_ calls
RefineWithinProduct ==
  pc = "gr_loop" =>
    RefineAttempts * 100 <= Len(design.groups[loc.g].siblings) * design.percent

\* A group_refine call makes at most as many calls as its loop has turns:
\* the least integer not below |siblings| * group_refine_percent_
RefineWithinTurns ==
  pc = "gr_loop" =>
    /\ RefineAttempts <= loc.j
    /\ RefineAttempts > 0 =>
          (RefineAttempts - 1) * 100
             < Len(design.groups[loc.g].siblings) * design.percent

Stray(c) == ~inGroup(c) /\ \E g \in 1..NG : c \in Siblings(g)

\* The group-specific code paths: group pre-placement, the greedy pass and its
\* rollback, the brick placements, group refine and group annealing
GroupPathPcs ==
  {"gpre", "gp_list", "gp_multi", "gp_single", "gp_end", "brick1_sort",
   "brick2_sort", "brick1", "brick2", "gr_sort", "gr_loop", "ga", "round_end"}

\* The cells an entry of the operation log was made for
OpCells(e) == IF e.op = "swap_cell" THEN e.swapped ELSE {e.cell}

\* C12: no group-specific code path passes to a grid operation a cell that is
\* listed in a group's siblings without belonging to a group (the run aborts
\* before), and the run aborts only if there is such a cell.
AbortBeforeStrayOp ==
  /\ pc \in GroupPathPcs =>
        \A i \in 1..Len(ops) : \A c \in OpCells(ops[i]) : ~Stray(c)
  /\ pc = "aborted" => \E c \in Cells : Stray(c)

\* A step leaves every held cell placed and where it is
HeldKeepPlace ==
  \A c \in Cells :
     cells[c].hold =>
       /\ cells'[c].is_placed
       /\ cells'[c].x = cells[c].x
       /\ cells'[c].y = cells[c].y

\* C13: once a cell is held, no later step of the run changes its committed
\* position or resets its is_placed.
HeldCellsStayPut ==
  [][HeldKeepPlace]_vars

\* C14: a greedy pass of a group is declared failed only after a cell of the
\* pass has failed its map_move and then its shift_move.
ShiftBeforeGivingUp ==
  pc = "gp_end" /\ GreedyFailed(Cur) =>
    \E i \in 1..Len(ops) :
       /\ ops[i].op = "shift_move" /\ ~ops[i].ok /\ GreedyAttempt(ops[i])
       /\ \E k \in 1..(i - 1) :
             /\ ops[k].op = "map_move" /\ ~ops[k].ok
             /\ ops[k].cell = ops[i].cell

\* The rectangle of a cell under the brick strategy that is running
BrickRect(c) ==
  IF pc = "brick1" THEN design.groups[loc.g].boundary ELSE cells[c].region

BrickDist(c) == Manhattan(initLocation(c), rectDistTarget(c, BrickRect(c)))

IsBrickOp(e) == e.op = "map_move" /\ e.ph \in {"brick1", "brick2"}

\* C15: every map_move of a brick placement is given the quadrant corner of
\* the cell's rectangle, and the siblings are attempted in non-decreasing
\* order of the distance from their original location to that corner.
BrickTargetRule ==
  pc \in {"brick1", "brick2"} =>
    /\ \A i \in 1..Len(ops) :
          IsBrickOp(ops[i]) =>
            <<ops[i].x, ops[i].y>> = rectDistTarget(ops[i].cell, BrickRect(ops[i].cell))
    /\ \A i, k \in 1..Len(loc.list) :
          i < k => BrickDist(loc.list[i]) <= BrickDist(loc.list[k])

\* The map_move calls a brick placement has made for a cell
BrickOps(c) == {i \in 1..Len(ops) : IsBrickOp(ops[i]) /\ ops[i].cell = c}

\* The loop of a brick placement has ended
BrickDone == pc \in {"brick1", "brick2"} /\ loc.j > Len(loc.list)

\* C16 (as stated): when a brick placement ends, it has made exactly one
\* map_move for every sibling of the group, under either strategy.
BrickCoverageAll ==
  BrickDone => \A c \in Siblings(loc.g) : Cardinality(BrickOps(c)) = 1

\* C16 (amended): when a brick placement ends, brick_placement_1 has made
\* exactly one map_move for every sibling, and brick_placement_2 exactly one
\* for every sibling that is not held and none for a held one; a failed
\* map_move does not stop the loop.
BrickCoverage ==
  BrickDone =>
    \A c \in Siblings(loc.g) :
       Cardinality(BrickOps(c)) = IF pc = "brick2" /\ cells[c].hold THEN 0 ELSE 1

\* brick_placement_2 has ended: it skipped a held sibling, and a map_move
\* that failed was followed by another
BrickCoverageWitness ==
  /\ BrickDone /\ pc = "brick2"
  /\ \E c \in Siblings(loc.g) : cells[c].hold
  /\ \E i, k \in 1..Len(ops) :
        i < k /\ IsBrickOp(ops[i]) /\ ~ops[i].ok /\ IsBrickOp(ops[k])

\* Position i of the sorted list is within the fraction the loop visits
Selected(i) == (i - 1) * 100 < Len(loc.list) * design.percent

\* C17: when the loop of group_refine starts, every cell it will attempt has
\* a displacement not below that of any sibling outside the selected
\* fraction (held siblings set aside), and the count equals the number of refine_move calls that
\* succeeded.
RefinerSelection ==
  pc = "gr_loop" =>
    /\ loc.j = 0 =>
          \A i, k \in 1..Len(loc.list) :
             /\ Selected(i) /\ ~cells[loc.list[i]].hold
             /\ ~Selected(k) /\ ~cells[loc.list[k]].hold
             => disp(Cur, loc.list[i]) >= disp(Cur, loc.list[k])
    /\ loc.count
          = Cardinality({i \in 1..Len(ops) : ops[i].op = "refine_move" /\ ops[i].ok})

\* The cells as loaded, and the first region in iteration order that a cell
\* overlaps at its original location
Loaded == [cells |-> InitCells]

FirstOverlap(c) == AllRegions[SetMin(OverlapIndex(Loaded, c))]

\* C18: non_group_cell_pre_placement commits a cell only if it overlaps a
\* region, at the nearest boundary coordinate of the first region it
\* overlaps, and an ungrouped cell (of no group's siblings) is held iff its
\* commit succeeded.
NonGroupSnapFirst ==
  pc = "ngpre" =>
    /\ \A i \in 1..Len(ops) :
          /\ OverlapIndex(Loaded, ops[i].cell) # {}
          /\ <<ops[i].x, ops[i].y>>
                = nearest_coord_to_rect_boundary(Loaded, ops[i].cell,
                                                 FirstOverlap(ops[i].cell))
    /\ \A c \in Cells :
          ~inGroup(c) /\ ~Stray(c) =>
            (cells[c].hold <=> \E i \in 1..Len(ops) : ops[i].cell = c /\ ops[i].ok)

\* C19: no fixed cell is passed to erase_pixel, map_move, shift_move,
\* refine_move or swap_cell, and a fixed cell keeps its is_placed and its
\* footprint.
FixedNeverTouched ==
  /\ \A i \in 1..Len(ops) : \A c \in OpCells(ops[i]) : ~isFixed(c)
  /\ \A c \in Cells :
        isFixed(c) =>
          /\ cells[c].is_placed = Attr(c).placed0
          /\ {t \in Sites : grid[t] = c}
                = IF Attr(c).placed0 THEN Footprint(c, initLocation(c)) ELSE {}

\* The positions of a run of simplePlacement without groups
NoGroupPcs == {"start", "ng_list", "ng_multi", "ng_single", "done"}

\* A cell the pass of non_group_cell_placement is to place
ToPlace(c) == ~isFixed(c) /\ ~inGroup(c) /\ ~Attr(c).placed0

\* C20: in a run without groups no cell is ever held, the only functions
\* called are the non-group region assignment and non_group_cell_placement,
\* every grid operation is a map_move or shift_move of its two loops on a
\* cell that was non-fixed, ungrouped and unplaced, and when the run
\* completes every such cell has had an attempt.
NoGroupGreedyOnly ==
  NG = 0 /\ pc \in NoGroupPcs =>
    /\ \A c \in Cells : ~cells[c].hold
    /\ \A i \in 1..Len(calls) :
          calls[i].fn \in {"non_group_cell_region_assign", "non_group_cell_placement"}
    /\ \A i \in 1..Len(ops) : GreedyAttempt(ops[i]) /\ ToPlace(ops[i].cell)
    /\ pc = "done" =>
          \A c \in Cells :
             ToPlace(c) =>
               \E i \in 1..Len(ops) : ops[i].op = "map_move" /\ ops[i].cell = c

\* A run without groups has completed after a shift_move moved a neighbour
NoGroupGreedyWitness ==
  /\ NG = 0 /\ pc = "done"
  /\ \E i \in 1..Len(ops) : ops[i].op = "shift_move" /\ ops[i].ok

====
